---- MODULE Spec2Model ----
(***************************************************************************)
(* The /api/ask request handler of pizzadao-crew-qa (src/app/api/ask/      *)
(* route.ts) together with the chat page that calls it (src/app/page.tsx).  *)
(*                                                                         *)
(* One behaviour is one request: the environment fixes the request body    *)
(* and what the vector store would rank for the two queries, the handler   *)
(* runs from one await to the next, and the page shows the outcome.        *)
(*                                                                         *)
(* Text is a sequence of one-character strings, so that trim, split,       *)
(* toLowerCase and includes are computed rather than assumed.  A JSON      *)
(* field that is null or missing is a field missing from the record.       *)
(* Similarities are in hundredths (0.85 is 85).                            *)
(***************************************************************************)
EXTENDS Integers, Sequences, FiniteSets, TLC

VARIABLES
    body,          \* the parsed request body (AskBody)
    ranking,       \* ranking[i]: what match_chunks ranks for query i, unbounded
    pc,            \* where the request is
    embed,         \* embed[i]: state of the i-th embeddings.create call
    search,        \* search[i]: state, result and place of arrival (at) of the i-th match_chunks call
    calls,         \* number of calls issued to each external service
    searchArgs,    \* arguments of the match_chunks calls, in issue order
    messages,      \* POST: const messages
    lastUser,      \* POST: const lastUser
    candidateK,    \* POST: const candidateK
    ANSWER_K,      \* POST: const ANSWER_K
    retrievalQuery,\* POST: const retrievalQuery
    raw,           \* POST: const raw
    chunksAll,     \* POST: let chunksAll, after the sort
    top,           \* POST: const top
    sources,       \* POST: const sources
    chatMessages,  \* the messages of the chat.completions.create call
    response,      \* the NextResponse returned
    shown,         \* page.tsx: what ask() leaves on the page
    snippetCall    \* a call of makeSnippet on its own: its arguments and its result

vars == <<body, ranking, pc, embed, search, calls, searchArgs, messages,
          lastUser, candidateK, ANSWER_K, retrievalQuery, raw, chunksAll,
          top, sources, chatMessages, response, shown, snippetCall>>

----------------------------------------------------------------------------
(* Text *)

Letters == {"a","b","c","d","e","f","g","h","i","j","k","l","m",
            "n","o","p","q","r","s","t","u","v","w","x","y","z"}

Digits == {"0","1","2","3","4","5","6","7","8","9"}

WhiteSpace == {" ", "\n", "\t"}

LowerOf ==
    "A" :> "a" @@ "B" :> "b" @@ "C" :> "c" @@ "D" :> "d" @@ "E" :> "e" @@ "F" :> "f" @@
    "G" :> "g" @@ "H" :> "h" @@ "I" :> "i" @@ "J" :> "j" @@ "K" :> "k" @@ "L" :> "l" @@
    "M" :> "m" @@ "N" :> "n" @@ "O" :> "o" @@ "P" :> "p" @@ "Q" :> "q" @@ "R" :> "r" @@
    "S" :> "s" @@ "T" :> "t" @@ "U" :> "u" @@ "V" :> "v" @@ "W" :> "w" @@ "X" :> "x" @@
    "Y" :> "y" @@ "Z" :> "z"

\* a sequence given as a function, as the tuple of its values
asTuple(f) == SubSeq(f, 1, Len(f))

\* String.prototype.toLowerCase
toLowerCase(s) ==
    asTuple([i \in 1..Len(s) |-> IF s[i] \in DOMAIN LowerOf THEN LowerOf[s[i]] ELSE s[i]])

\* String.prototype.trim
trim(s) ==
    LET leading  == Cardinality({i \in 1..Len(s) : \A j \in 1..i : s[j] \in WhiteSpace})
        trailing == Cardinality({i \in 1..Len(s) : \A j \in i..Len(s) : s[j] \in WhiteSpace})
    IN  IF leading = Len(s) THEN <<>>
        ELSE SubSeq(s, leading + 1, Len(s) - trailing)

\* String.prototype.includes
includes(s, sub) ==
    \E i \in 0..(Len(s) - Len(sub)) : SubSeq(s, i + 1, i + Len(sub)) = sub

\* the indices of an array, in order
indices(s) == asTuple([i \in 1..Len(s) |-> i])

\* String.prototype.split with a one-character separator: the parts are what
\* lies between one separator and the next
split(s, sep) ==
    LET at       == SelectSeq(indices(s), LAMBDA i : s[i] = sep)
        n        == Len(at)
        after(k) == IF k = 1 THEN 1 ELSE at[k - 1] + 1
        upTo(k)  == IF k = n + 1 THEN Len(s) ELSE at[k] - 1
    IN  asTuple([k \in 1..(n + 1) |-> SubSeq(s, after(k), upTo(k))])

\* String.prototype.split(/\s+/): the separators are the maximal runs of white space
splitWs(s) ==
    LET starts   == SelectSeq(indices(s), LAMBDA i :
                        s[i] \in WhiteSpace /\ (i = 1 \/ s[i - 1] \notin WhiteSpace))
        ends     == SelectSeq(indices(s), LAMBDA i :
                        s[i] \in WhiteSpace /\ (i = Len(s) \/ s[i + 1] \notin WhiteSpace))
        n        == Len(starts)
        after(k) == IF k = 1 THEN 1 ELSE ends[k - 1] + 1
        upTo(k)  == IF k = n + 1 THEN Len(s) ELSE starts[k] - 1
    IN  asTuple([k \in 1..(n + 1) |-> SubSeq(s, after(k), upTo(k))])

\* Array.prototype.join, one half of the array and then the other
RECURSIVE join(_, _)
join(parts, sep) ==
    IF parts = <<>> THEN <<>>
    ELSE IF Len(parts) = 1 THEN parts[1]
    ELSE LET h == Len(parts) \div 2
         IN  join(SubSeq(parts, 1, h), sep) \o sep \o join(SubSeq(parts, h + 1, Len(parts)), sep)

\* Array.prototype.slice(-n)
lastN(s, n) == SubSeq(s, IF Len(s) > n THEN Len(s) - n + 1 ELSE 1, Len(s))

\* Array.prototype.slice(0, n)
firstN(s, n) == SubSeq(s, 1, IF Len(s) > n THEN n ELSE Len(s))

\* new Set(array)
elements(s) == {s[i] : i \in 1..Len(s)}

Min(a, b) == IF a < b THEN a ELSE b

Max(a, b) == IF a > b THEN a ELSE b

----------------------------------------------------------------------------
(* The helpers of route.ts *)

\* sheetUrl: the URL is kept as the pair it is formatted from; a gid that is
\* null, missing or 0 is falsy and gives the base-document URL
sheetUrl(spreadsheetId, c) ==
    IF "gid" \in DOMAIN c /\ c.gid # 0
    THEN [spreadsheet_id |-> spreadsheetId, gid |-> c.gid]
    ELSE [spreadsheet_id |-> spreadsheetId]

\* lastUserOf without the test of the role: the last turn, whoever spoke
lastUserOfAnyRole(msgs) ==
    IF msgs = <<>> THEN <<>> ELSE trim(msgs[Len(msgs)].content)

\* [...messages].reverse().find((m) => m.role === "user")?.content?.trim() || ""
lastUserOf(msgs) ==
    IF \E i \in 1..Len(msgs) : msgs[i].role = "user"
    THEN LET i == CHOOSE k \in 1..Len(msgs) :
                      /\ msgs[k].role = "user"
                      /\ \A j \in (k + 1)..Len(msgs) : msgs[j].role # "user"
         IN  trim(msgs[i].content)
    ELSE <<>>

HISTORY_WINDOW == 8

\* buildRetrievalQuery: the fixed framing text around the two holes is left
\* out; the holes are `recent` (one "ROLE: content" line per turn) and `q`
buildRetrievalQuery(msgs, fallbackQuestion) ==
    LET lu     == lastUserOf(msgs)
        window == lastN(msgs, HISTORY_WINDOW)
        recent == asTuple([i \in 1..Len(window) |->
                      [role    |-> IF window[i].role = "user" THEN "USER" ELSE "ASSISTANT",
                       content |-> window[i].content]])
        q      == trim(IF lu # <<>> THEN lu ELSE fallbackQuestion)
    IN  [recent |-> recent, question |-> q]

\* String(x ?? "").trim() of an optional field
trimmedField(rec, name) == IF name \in DOMAIN rec THEN trim(rec[name]) ELSE <<>>

\* coerceMessages: the loop over msgs; a turn is kept with its content trimmed
\* when its role is one of the two and the trimmed content is not empty
cleanMessages(msgs) ==
    SelectSeq(asTuple([i \in 1..Len(msgs) |->
                  [role |-> msgs[i].role, content |-> trimmedField(msgs[i], "content")]]),
              LAMBDA m : m.role \in {"user", "assistant"} /\ m.content # <<>>)

\* coerceMessages with the question appended whenever one is given
coerceMessagesAppendQuestion(b) ==
    LET msgs    == IF "messages" \in DOMAIN b THEN b.messages ELSE <<>>
        cleaned == cleanMessages(msgs)
        q       == trimmedField(b, "question")
    IN  IF q # <<>> THEN Append(cleaned, [role |-> "user", content |-> q]) ELSE cleaned

coerceMessages(b) ==
    LET msgs     == IF "messages" \in DOMAIN b THEN b.messages ELSE <<>>
        cleaned  == cleanMessages(msgs)
        q        == trimmedField(b, "question")
        cleaned2 == IF cleaned = <<>> /\ q # <<>>
                    THEN Append(cleaned, [role |-> "user", content |-> q])
                    ELSE cleaned
    IN  IF (cleaned2 = <<>> \/ \A i \in 1..Len(cleaned2) : cleaned2[i].role # "user")
           /\ q # <<>>
        THEN Append(cleaned2, [role |-> "user", content |-> q])
        ELSE cleaned2

MIN_KEYWORD_LEN == 3

StopWords == { <<"p","i","z","z","a">>, <<"p","i","z","z","a","d","a","o">>,
               <<"c","r","e","w">>, <<"s","h","e","e","t","s">> }

\* .replace(/[^a-z0-9\s_-]/g, " ")
sanitize(s) ==
    asTuple([i \in 1..Len(s) |->
        IF s[i] \in Letters \cup Digits \cup WhiteSpace \cup {"_", "-"} THEN s[i] ELSE " "])

keywords(q) ==
    SelectSeq(splitWs(sanitize(toLowerCase(q))),
              LAMBDA t : Len(t) >= MIN_KEYWORD_LEN /\ t \notin StopWords)

HEADER_LINES == 12

maxMatchBlocks == 18

FALLBACK_LINES == 30

W_headers == <<"h","e","a","d","e","r","s">>

\* the one-character truncation marker U+2026, kept as one symbol
ELLIPSIS == <<"...">>

\* makeSnippet: the array picked after add was called with each line of ls in
\* turn: add drops an empty line and a line equal to the last one pushed, which
\* is the line before it among the lines that are not empty
addAll(ls) ==
    LET full == SelectSeq(ls, LAMBDA l : l # <<>>)
        kept == SelectSeq(indices(full), LAMBDA i : i = 1 \/ full[i] # full[i - 1])
    IN  asTuple([k \in 1..Len(kept) |-> full[kept[k]]])

\* makeSnippet: the lines the loop over the lines hands to add, in order: the
\* line before, the line and the line after of each line that holds a keyword,
\* for the first maxMatchBlocks such lines
matchLoop(lines, keys) ==
    LET hits      == SelectSeq(indices(lines), LAMBDA i :
                         \E k \in keys : includes(toLowerCase(lines[i]), k))
        blocks    == firstN(hits, maxMatchBlocks)
        around(i) == <<lines[Max(1, i - 1)], lines[i], lines[Min(Len(lines), i + 1)]>>
    IN  asTuple([n \in 1..(3 * Len(blocks)) |->
            around(blocks[(n + 2) \div 3])[n - 3 * ((n - 1) \div 3)]])

\* makeSnippet before the cut to maxChars
snippetUncut(text, q) ==
    LET lines     == split(text, "\n")
        keys      == elements(keywords(q))
        headerish == SelectSeq(firstN(lines, HEADER_LINES),
                         LAMBDA l : includes(l, <<"|">>) \/ includes(toLowerCase(l), W_headers))
        picked    == addAll(headerish \o matchLoop(lines, keys))
        snippet   == trim(join(picked, <<"\n">>))
    IN  IF snippet # <<>> THEN snippet
        ELSE trim(join(firstN(lines, FALLBACK_LINES), <<"\n">>))

\* makeSnippet without the cut to maxChars
makeSnippetUncut(text, q, maxChars) == snippetUncut(text, q)

makeSnippet(text, q, maxChars) ==
    LET snippet == snippetUncut(text, q)
    IN  IF Len(snippet) > maxChars THEN SubSeq(snippet, 1, maxChars) \o ELLIPSIS
        ELSE snippet

BONUS_CAP == 25

BONUS_PER_HIT == 3

\* rerankScore without the cap on the bonus
rerankScoreNoCap(chunkText, q, similarity) ==
    LET keys == keywords(q)
        lo   == toLowerCase(chunkText)
        hits == Cardinality({i \in 1..Len(keys) : includes(lo, keys[i])})
    IN  similarity + hits * BONUS_PER_HIT

\* rerankScore, in hundredths
rerankScore(chunkText, q, similarity) ==
    LET keys == keywords(q)
        lo   == toLowerCase(chunkText)
        hits == Cardinality({i \in 1..Len(keys) : includes(lo, keys[i])})
    IN  IF Len(keys) = 0 THEN similarity
        ELSE similarity + Min(BONUS_CAP, hits * BONUS_PER_HIT)

\* a similarity that is null counts as 0 in `?? 0`, in + and in -
similarityOf(c) == IF "similarity" \in DOMAIN c THEN c.similarity ELSE 0

\* POST: const key, the Map key of a row
chunkKey(c) == c.spreadsheet_id \o <<"|">> \o c.sheet_name \o <<"|">> \o c.a1_range

\* the identity triple of a row, a citation or an evidence entry
identity(c) == <<c.spreadsheet_id, c.sheet_name, c.a1_range>>

\* dedupe that keeps every row
dedupeKeepAll(rawRows) == rawRows

\* POST: the loop filling byKey and Array.from(byKey.values()). A Map keeps a
\* key at the place of its first insertion, and a row replaces the row of its
\* key only with a higher similarity: the value of a key is the first of its
\* rows with the highest similarity
dedupe(rawRows) ==
    LET key        == asTuple([i \in 1..Len(rawRows) |-> chunkKey(rawRows[i])])
        same(i, j) == key[i] = key[j]
        firsts     == SelectSeq(indices(rawRows), LAMBDA i : \A j \in 1..(i - 1) : ~same(i, j))
        sim        == asTuple([i \in 1..Len(rawRows) |-> similarityOf(rawRows[i])])
        best(f)    == CHOOSE i \in 1..Len(rawRows) :
                          /\ same(i, f)
                          /\ \A j \in 1..Len(rawRows) : same(j, f) =>
                                 sim[i] > sim[j] \/ (sim[i] = sim[j] /\ i <= j)
    IN  asTuple([k \in 1..Len(firsts) |-> rawRows[best(firsts[k])]])

\* the score the comparator of the sort computes for a row
scoreOf(c, q) == rerankScore(c.text, q, similarityOf(c))

\* rerank that leaves the candidates in the order of the Map
rerankNone(chunks, q) == chunks

\* POST: chunksAll.sort((a, b) => sb - sa). Array.prototype.sort is stable: a
\* row comes after every row of a higher score and after the rows of its own
\* score that stood before it
rerank(chunks, q) ==
    LET score    == asTuple([i \in 1..Len(chunks) |-> scoreOf(chunks[i], q)])
        place == asTuple([i \in 1..Len(chunks) |->
                     Cardinality({j \in 1..Len(chunks) :
                         score[j] > score[i] \/ (score[j] = score[i] /\ j <= i)})])
    IN  asTuple([p \in 1..Len(chunks) |-> chunks[CHOOSE i \in 1..Len(chunks) : place[i] = p]])

SOURCE_SNIPPET_CHARS == 1200

PREVIEW_CHARS == 900

\* c.spreadsheet_title ?? c.spreadsheet_id
titleOf(c) == IF "spreadsheet_title" \in DOMAIN c THEN c.spreadsheet_title ELSE c.spreadsheet_id

\* POST: const sources; a block is kept as the fields it is formatted from
buildSources(topRows, q) ==
    asTuple(
    [i \in 1..Len(topRows) |->
        [n              |-> i,
         spreadsheet    |-> titleOf(topRows[i]),
         spreadsheet_id |-> topRows[i].spreadsheet_id,
         sheet_name     |-> topRows[i].sheet_name,
         a1_range       |-> topRows[i].a1_range,
         content        |-> makeSnippet(topRows[i].text, q, SOURCE_SNIPPET_CHARS)]])

\* buildChatMessages with the whole conversation
buildChatMessagesAllTurns(msgs, srcs) ==
    <<[role |-> "system", prompt |-> "SYSTEM_PROMPT"]>>
    \o msgs
    \o <<[role |-> "user", sources |-> srcs]>>

\* POST: the messages argument of chat.completions.create
buildChatMessages(msgs, srcs) ==
    <<[role |-> "system", prompt |-> "SYSTEM_PROMPT"]>>
    \o lastN(msgs, HISTORY_WINDOW)
    \o <<[role |-> "user", sources |-> srcs]>>

\* buildCitations over every candidate instead of the rows shown to the model
buildCitationsAll(topRows) ==
    asTuple(
    [i \in 1..Len(chunksAll) |->
        [spreadsheet_id    |-> chunksAll[i].spreadsheet_id,
         spreadsheet_title |-> titleOf(chunksAll[i]),
         url               |-> sheetUrl(chunksAll[i].spreadsheet_id, chunksAll[i]),
         sheet_name        |-> chunksAll[i].sheet_name,
         a1_range          |-> chunksAll[i].a1_range]])

\* POST: const citations
buildCitations(topRows) ==
    asTuple(
    [i \in 1..Len(topRows) |->
        LET c    == topRows[i]
            base == [spreadsheet_id    |-> c.spreadsheet_id,
                     spreadsheet_title |-> titleOf(c),
                     url               |-> sheetUrl(c.spreadsheet_id, c),
                     sheet_name        |-> c.sheet_name,
                     a1_range          |-> c.a1_range]
        IN  IF "similarity" \in DOMAIN c
            THEN base @@ [similarity |-> c.similarity]
            ELSE base])

\* buildEvidence with the start of the chunk's text as the preview
buildEvidenceFromText(topRows, q) ==
    asTuple(
    [i \in 1..Len(topRows) |->
        [source         |-> i,
         spreadsheet_id |-> topRows[i].spreadsheet_id,
         sheet_name     |-> topRows[i].sheet_name,
         a1_range       |-> topRows[i].a1_range,
         preview        |-> IF Len(topRows[i].text) > PREVIEW_CHARS
                            THEN SubSeq(topRows[i].text, 1, PREVIEW_CHARS) \o ELLIPSIS
                            ELSE topRows[i].text]])

\* POST: const evidence
buildEvidence(topRows, q) ==
    asTuple(
    [i \in 1..Len(topRows) |->
        [source         |-> i,
         spreadsheet_id |-> topRows[i].spreadsheet_id,
         sheet_name     |-> topRows[i].sheet_name,
         a1_range       |-> topRows[i].a1_range,
         preview        |-> makeSnippet(topRows[i].text, q, PREVIEW_CHARS)]])

\* the two fixed fallback answers, each kept as one symbol
FALLBACK_NO_ROWS == <<"I don't see this information in the indexed sheets. (If you expect it exists, the sheet may not be indexed yet, or the relevant table wasn't retrieved.)">>

FALLBACK_NO_TOP == <<"I don't see this information in the indexed sheets. (If you expect it exists, the relevant table wasn't retrieved.)">>

\* page.tsx: the text ask() shows for a blank or missing answer, kept as one symbol
NO_ANSWER_TEXT == <<"I didn't get an answer back (empty response).">>

\* POST: const requestedTopK
requestedTopKOf(b) == Min(Max(IF "topK" \in DOMAIN b THEN b.topK ELSE 35, 5), 120)

\* candidateKOf without the upper clamp
candidateKOfNoCap(b) == Max(requestedTopKOf(b) * 3, 40)

\* POST: const candidateK
candidateKOf(b) == Min(Max(requestedTopKOf(b) * 3, 40), 120)

\* POST: const ANSWER_K; \div rounds down as Math.floor does
answerKOf(b) == Min(Max((IF "topK" \in DOMAIN b THEN b.topK ELSE 12) \div 2, 8), 20)

----------------------------------------------------------------------------
(* The inputs: request bodies and what the store ranks *)

Q_LEADS == <<"w","h","o"," ","l","e","a","d","s"," ","a","u","s","t","i","n">>

Q_INDEX == <<"h","o","w"," ","m","a","n","y"," ","s","h","e","e","t","s"," ","a","r","e"," ","i","n","d","e","x","e","d">>

Q_PADDED == <<" ","h","i"," ">>

Q_FOLLOWUP == <<"a","n","d"," ","h","e","r"," ","r","o","l","e">>

BLANK == <<" ">>

T_ROSTER == <<"n","a","m","e","|","r","o","l","e","\n","a","n","n","|","l","e","a","d","s"," ","a","u","s","t","i","n","\n","b","o","b","|","c","o","o","k">>

T_NOTES == <<"H","e","a","d","e","r","s",":"," ","c","i","t","y","\n","m","e","e","t","s"," ","f","r","i","d","a","y">>

T_PLAIN == <<"t","b","d">>

DOC1 == <<"d","o","c","1">>

DOC2 == <<"d","o","c","2">>

\* the chunks of the store; CHUNK_B and CHUNK_C differ in sheet_name and
\* a1_range, CHUNK_A2 is a second chunk at the location of CHUNK_A
CHUNK_A == [id |-> "a", spreadsheet_id |-> DOC1, spreadsheet_title |-> <<"C","r","e","w">>,
            sheet_name |-> <<"R">>, a1_range |-> <<"A","1">>, text |-> T_NOTES, gid |-> 7]

CHUNK_A2 == [id |-> "a2", spreadsheet_id |-> DOC1, spreadsheet_title |-> <<"C","r","e","w">>,
             sheet_name |-> <<"R">>, a1_range |-> <<"A","1">>, text |-> T_PLAIN, gid |-> 7]

CHUNK_B == [id |-> "b", spreadsheet_id |-> DOC2,
            sheet_name |-> <<"L","|","x">>, a1_range |-> <<"B","2">>, text |-> T_ROSTER, gid |-> 0]

CHUNK_C == [id |-> "c", spreadsheet_id |-> DOC2,
            sheet_name |-> <<"L">>, a1_range |-> <<"x","|","B","2">>, text |-> T_PLAIN]

withSimilarity(chunk, sim) == chunk @@ [similarity |-> sim]

\* the rows match_chunks may return; one of them has a null similarity
Rows == { withSimilarity(CHUNK_A, 85),
          withSimilarity(CHUNK_A2, 85), CHUNK_A2,
          withSimilarity(CHUNK_B, 82), withSimilarity(CHUNK_C, 85) }

\* RankingPairs: every pair of rankings of at most MaxRows rows together, the
\* second of them of one row at most
MaxRows == 3

SeqsUpTo(S, n) == UNION {[1..k -> S] : k \in 0..n}

RankingPairs ==
    {p \in SeqsUpTo(Rows, MaxRows) \X SeqsUpTo(Rows, 1) : Len(p[1]) + Len(p[2]) <= MaxRows}

\* a store with more locations than any answer window: WideDocs chunks
WideDocs == 10

wideChunk(n) ==
    [id |-> "w", spreadsheet_id |-> DOC2, sheet_name |-> <<"W">>,
     a1_range |-> <<"A">> \o asTuple([k \in 1..n |-> "1"]),
     text |-> IF n % 2 = 0 THEN T_ROSTER ELSE T_PLAIN,
     similarity |-> 50 + n]

WidePair ==
    << asTuple([i \in 1..(WideDocs \div 2 + 1) |-> wideChunk(i)]),
       asTuple([i \in 1..(WideDocs - WideDocs \div 2 + 1) |-> wideChunk(WideDocs + 1 - i)]) >>

\* both queries rank the same location, the enriched one higher
OverlapPair == << <<withSimilarity(CHUNK_A, 70)>>, <<withSimilarity(CHUNK_A, 85)>> >>

Roles == {"user", "assistant"}

Contents == {Q_PADDED, Q_INDEX}

\* the turns a body may carry: well-formed ones, and a blank one, one of
\* another role and one without content
RawMessages ==
    [role : Roles, content : Contents]
    \cup {[role |-> "user", content |-> BLANK], [role |-> "system", content |-> Q_PADDED],
          [role |-> "user"]}

\* a conversation has at most MaxMsgs turns
MaxMsgs == 2

\* topK ranges over -MaxTopK..MaxTopK, absent and 1000
MaxTopK == 42

withQuestion(b, Qs) == {b} \cup {b @@ [question |-> q] : q \in Qs}

\* conversations of every shape, with and without the back-compat question
BodiesByMessages ==
    UNION { withQuestion(b, {BLANK, Q_FOLLOWUP}) :
            b \in {[topK |-> 10]} \cup
                  {[messages |-> m, topK |-> 10] : m \in SeqsUpTo(RawMessages, MaxMsgs)} }

\* every topK for one fixed question
BodiesByTopK ==
    {[question |-> Q_LEADS]} \cup
    {[question |-> Q_LEADS, topK |-> k] : k \in (-MaxTopK..MaxTopK) \cup {1000}}

\* what page.tsx sends after its greeting
PageBody ==
    [messages |-> <<[role |-> "assistant", content |-> <<"h","i">>],
                    [role |-> "user", content |-> Q_LEADS]>>, topK |-> 35]

\* two locations whose combined scores for Q_LEADS are equal (0.64 + 0.06 and
\* 0.70 + 0, equal as doubles too), the one of the lower similarity returned
\* by the first search
TiePair == << <<withSimilarity(CHUNK_B, 64)>>, <<withSimilarity(CHUNK_A, 70)>> >>

\* a question of nine keywords, each of them found in T_ROSTER
Q_MANY == <<"a","n","n"," ","b","o","b"," ","c","o","o","k"," ","n","a","m","e"," ","r","o","l","e"," ","l","e","a","d","s"," ","a","u","s","t","i","n"," ","a","n","n"," ","b","o","b">>

\* for Q_MANY: a table at 0.50, and two texts without any keyword at 0.75 and 0.76
CapPair == << <<withSimilarity(CHUNK_B, 50), [wideChunk(1) EXCEPT !.similarity = 75]>>,
              <<withSimilarity(CHUNK_A, 76)>> >>

\* a conversation longer than the history window: TalkTurns turns, user and
\* assistant in turn, no two with the same content
TalkTurns == 10

TalkBody ==
    [messages |-> asTuple([k \in 1..TalkTurns |->
                      [role    |-> IF k % 2 = 1 THEN "user" ELSE "assistant",
                       content |-> <<"t">> \o asTuple([j \in 1..k |-> "1"])]]),
     topK |-> 35]

\* tables of TableRows rows, each row longer than the one before and each with
\* keywords of Q_LEADS: for Q_LEADS the snippet of T_LONG is longer than a
\* preview and fits a Source, the snippet of T_HUGE is longer than a Source
TableRows == 19

tableText(rowEnd) ==
    join(asTuple([k \in 1..TableRows |->
             <<"r">> \o asTuple([j \in 1..k |-> "1"]) \o rowEnd]), <<"\n">>)

T_LONG == tableText(<<"|","a","u","s","t","i","n">>)

T_HUGE == tableText(<<"|","l","e","a","d","s"," ","a","u","s","t","i","n">>)

CHUNK_LONG == [id |-> "l", spreadsheet_id |-> DOC1, sheet_name |-> <<"T">>,
               a1_range |-> <<"A","1">>, text |-> T_LONG, similarity |-> 80]

CHUNK_HUGE == [id |-> "h", spreadsheet_id |-> DOC1, sheet_name |-> <<"U">>,
               a1_range |-> <<"A","1">>, text |-> T_HUGE, similarity |-> 60]

LongPair == << <<CHUNK_LONG, withSimilarity(CHUNK_A, 70)>>, <<CHUNK_HUGE>> >>

Inputs ==
    (BodiesByMessages \X {OverlapPair})
    \cup (BodiesByTopK \X {WidePair})
    \cup ({PageBody} \X RankingPairs)
    \cup ({PageBody} \X {TiePair})
    \cup ({[question |-> Q_MANY]} \X {CapPair})
    \cup ({TalkBody} \X {TiePair})
    \cup ({PageBody} \X {LongPair})

----------------------------------------------------------------------------
(* The request *)

\* no call of makeSnippet on its own is under way
NO_CALL == [fn |-> "none"]

Init ==
    /\ \E in \in Inputs : body = in[1] /\ ranking = in[2]
    /\ snippetCall = NO_CALL
    /\ pc = "start"
    /\ embed = <<"idle", "idle">>
    /\ search = <<[state |-> "idle"], [state |-> "idle"]>>
    /\ calls = [embed |-> 0, search |-> 0, chat |-> 0]
    /\ searchArgs = <<>>
    /\ messages = <<>>
    /\ lastUser = <<>>
    /\ candidateK = 0
    /\ ANSWER_K = 0
    /\ retrievalQuery = [recent |-> <<>>, question |-> <<>>]
    /\ raw = <<>>
    /\ chunksAll = <<>>
    /\ top = <<>>
    /\ sources = <<>>
    /\ chatMessages = <<>>
    /\ response = [status |-> 0]
    /\ shown = [status |-> "loading"]

\* NextResponse.json(payload, { status })
jsonResponse(status, payload) == [status |-> status, body |-> payload]

EMBED_ERROR == "embeddings.create failed"

CHAT_ERROR == "chat.completions.create failed"

\* a catch that answers as if nothing had been retrieved
caughtSwallowed(e) ==
    jsonResponse(200, [answer |-> FALLBACK_NO_ROWS, citations |-> <<>>, evidence |-> <<>>])

\* POST: the catch block, for a thrown error of message e
caught(e) == jsonResponse(500, [error |-> "Unhandled error", detail |-> e])

\* the message of the error the i-th match_chunks call returns
searchError(i) == IF i = 1 THEN "match_chunks error 1" ELSE "match_chunks error 2"

\* POST up to the first await: parse, pick the question, issue both embedding calls
Receive ==
    /\ pc = "start"
    /\ LET msgs == coerceMessages(body)
           lu   == lastUserOf(msgs)
       IN  /\ messages' = msgs
           /\ lastUser' = lu
           /\ IF lu = <<>>
              THEN /\ response' = jsonResponse(400, [error |-> "Missing question"])
                   /\ pc' = "responded"
                   /\ UNCHANGED <<candidateK, ANSWER_K, retrievalQuery, embed, calls>>
              ELSE /\ candidateK' = candidateKOf(body)
                   /\ ANSWER_K' = answerKOf(body)
                   /\ retrievalQuery' = buildRetrievalQuery(msgs, lu)
                   /\ embed' = <<"pending", "pending">>
                   /\ calls' = [calls EXCEPT !.embed = 2]
                   /\ pc' = "embedding"
                   /\ UNCHANGED response
    /\ UNCHANGED <<snippetCall, body, ranking, search, searchArgs, raw, chunksAll, top, sources,
                   chatMessages, shown>>

\* body.filterSpreadsheetId ?? null
matchArgs(b, query, k) ==
    IF "filterSpreadsheetId" \in DOMAIN b
    THEN [query_embedding |-> query, match_count |-> k,
          filter_spreadsheet_id |-> b.filterSpreadsheetId]
    ELSE [query_embedding |-> query, match_count |-> k]

\* EmbedOk that issues the match_chunks calls as soon as one embedding call resolved
EmbedOkEager(i) ==
    /\ pc = "embedding"
    /\ embed[i] = "pending"
    /\ embed' = [embed EXCEPT ![i] = "ok"]
    /\ search' = <<[state |-> "pending"], [state |-> "pending"]>>
    /\ searchArgs' = <<matchArgs(body, "qVec", candidateK),
                       matchArgs(body, "rVec", candidateK)>>
    /\ calls' = [calls EXCEPT !.search = 2]
    /\ pc' = "searching"
    /\ UNCHANGED <<snippetCall, body, ranking, messages, lastUser, candidateK, ANSWER_K,
                   retrievalQuery, raw, chunksAll, top, sources, chatMessages,
                   response, shown>>

\* an embedding call resolves; once both have, both match_chunks calls are issued
EmbedOk(i) ==
    /\ pc = "embedding"
    /\ embed[i] = "pending"
    /\ embed' = [embed EXCEPT ![i] = "ok"]
    /\ IF embed[3 - i] = "ok"
       THEN /\ search' = <<[state |-> "pending"], [state |-> "pending"]>>
            /\ searchArgs' = <<matchArgs(body, "qVec", candidateK),
                               matchArgs(body, "rVec", candidateK)>>
            /\ calls' = [calls EXCEPT !.search = 2]
            /\ pc' = "searching"
       ELSE UNCHANGED <<search, searchArgs, calls, pc>>
    /\ UNCHANGED <<snippetCall, body, ranking, messages, lastUser, candidateK, ANSWER_K,
                   retrievalQuery, raw, chunksAll, top, sources, chatMessages,
                   response, shown>>

\* an embedding call throws: Promise.all rejects and the catch answers
EmbedFail(i) ==
    /\ pc = "embedding"
    /\ embed[i] = "pending"
    /\ embed' = [embed EXCEPT ![i] = "failed"]
    /\ response' = caught(EMBED_ERROR)
    /\ pc' = "responded"
    /\ UNCHANGED <<snippetCall, body, ranking, search, calls, searchArgs, messages, lastUser,
                   candidateK, ANSWER_K, retrievalQuery, raw, chunksAll, top,
                   sources, chatMessages, shown>>

\* m.data ?? []
dataOf(m) == IF "data" \in DOMAIN m THEN m.data ELSE <<>>

\* mergeRows in the order in which the two searches completed
mergeRowsByArrival(m1, m2) ==
    IF m2.at < m1.at THEN dataOf(m2) \o dataOf(m1) ELSE dataOf(m1) \o dataOf(m2)

\* POST: const raw, the rows of the first search and then those of the second
mergeRows(m1, m2) == dataOf(m1) \o dataOf(m2)

\* failedSearch that looks at the first search only
failedSearchFirstOnly(m1, m2) == IF "error" \in DOMAIN m1 THEN <<m1.error>> ELSE <<>>

\* POST: if (m1.error) ... if (m2.error) ...: the error answered with, if any
failedSearch(m1, m2) ==
    IF "error" \in DOMAIN m1 THEN <<m1.error>>
    ELSE IF "error" \in DOMAIN m2 THEN <<m2.error>>
    ELSE <<>>

\* noRows with the early return left out
noRowsNever(rawRows) == FALSE

\* POST: if (raw.length === 0)
noRows(rawRows) == Len(rawRows) = 0

\* POST: the answer returned without asking the model
fallbackResponse(text) ==
    jsonResponse(200, [answer |-> text, citations |-> <<>>, evidence |-> <<>>])

\* POST from the results of the two searches to the chat call or an early return
afterSearch(m1, m2, msgs, q, answerK) ==
    LET failed  == failedSearch(m1, m2)
        rawRows == mergeRows(m1, m2)
        all     == rerank(dedupe(rawRows), q)
        topRows == firstN(all, answerK)
        srcs    == buildSources(topRows, q)
        none    == [raw |-> <<>>, chunksAll |-> <<>>, top |-> <<>>, sources |-> <<>>,
                    chatMessages |-> <<>>, chat |-> 0, pc |-> "responded"]
    IN  IF failed # <<>>
        THEN none @@ [response |-> jsonResponse(500,
                 [error |-> "match_chunks failed", detail |-> failed[1].message])]
        ELSE IF noRows(rawRows)
        THEN none @@ [response |-> fallbackResponse(FALLBACK_NO_ROWS)]
        ELSE IF Len(topRows) = 0
        THEN [none EXCEPT !.raw = rawRows, !.chunksAll = all] @@
             [response |-> fallbackResponse(FALLBACK_NO_TOP)]
        ELSE [raw |-> rawRows, chunksAll |-> all, top |-> topRows, sources |-> srcs,
              chatMessages |-> buildChatMessages(msgs, srcs), chat |-> 1,
              pc |-> "completing", response |-> [status |-> 0]]

\* the i-th match_chunks call resolves to m; once both have, POST goes on
searchDone(i, m) ==
    /\ pc = "searching"
    /\ search[i].state = "pending"
    /\ search' = [search EXCEPT ![i] =
           [state |-> "done", at |-> IF search[3 - i].state = "done" THEN 2 ELSE 1] @@ m]
    /\ IF search[3 - i].state = "done"
       THEN \E r \in {afterSearch(search'[1], search'[2], messages, lastUser, ANSWER_K)} :
                /\ raw' = r.raw
                /\ chunksAll' = r.chunksAll
                /\ top' = r.top
                /\ sources' = r.sources
                /\ chatMessages' = r.chatMessages
                /\ calls' = [calls EXCEPT !.chat = r.chat]
                /\ response' = r.response
                /\ pc' = r.pc
       ELSE UNCHANGED <<raw, chunksAll, top, sources, chatMessages, calls, response, pc>>
    /\ UNCHANGED <<snippetCall, body, ranking, embed, searchArgs, messages, lastUser, candidateK,
                   ANSWER_K, retrievalQuery, shown>>

\* match_chunks returns the first match_count rows of its ranking
SearchOk(i) == searchDone(i, [data |-> firstN(ranking[i], searchArgs[i].match_count)])

\* match_chunks returns an error
SearchError(i) == searchDone(i, [error |-> [message |-> searchError(i)]])

\* what chat.completions.create may resolve to: no content, blank, padded text
Completions == { [choices |-> <<>>],
                 [choices |-> <<[message |-> [content |-> <<>>]]>>],
                 [choices |-> <<[message |-> [content |-> <<" ", "\n">>]]>>],
                 [choices |-> <<[message |-> [content |-> <<" ","A","n","n"," ","[","1","]","\n">>]]>>] }

\* completion.choices[0]?.message?.content?.trim() || ""
answerOf(completion) ==
    IF completion.choices = <<>> THEN <<>>
    ELSE trim(completion.choices[1].message.content)

\* the chat call resolves: POST shapes the answer from top
ChatOk(completion) ==
    /\ pc = "completing"
    /\ response' = jsonResponse(200,
           [answer    |-> answerOf(completion),
            citations |-> buildCitations(top),
            evidence  |-> buildEvidence(top, lastUser)])
    /\ pc' = "responded"
    /\ UNCHANGED <<snippetCall, body, ranking, embed, search, calls, searchArgs, messages, lastUser,
                   candidateK, ANSWER_K, retrievalQuery, raw, chunksAll, top, sources,
                   chatMessages, shown>>

\* the chat call throws: the catch answers
ChatFail ==
    /\ pc = "completing"
    /\ response' = caught(CHAT_ERROR)
    /\ pc' = "responded"
    /\ UNCHANGED <<snippetCall, body, ranking, embed, search, calls, searchArgs, messages, lastUser,
                   candidateK, ANSWER_K, retrievalQuery, raw, chunksAll, top, sources,
                   chatMessages, shown>>

\* page.tsx ask(): what the page shows for the JSON it got back
shownFor(json) ==
    [answer    |-> IF "answer" \in DOMAIN json /\ trim(json.answer) # <<>>
                   THEN trim(json.answer) ELSE NO_ANSWER_TEXT,
     citations |-> IF "citations" \in DOMAIN json THEN json.citations ELSE <<>>,
     evidence  |-> IF "evidence" \in DOMAIN json THEN json.evidence ELSE <<>>]

\* page.tsx ask(): the fetch resolves
PageShow ==
    /\ pc = "responded"
    /\ shown' = shownFor(response.body)
    /\ pc' = "shown"
    /\ UNCHANGED <<snippetCall, body, ranking, embed, search, calls, searchArgs, messages, lastUser,
                   candidateK, ANSWER_K, retrievalQuery, raw, chunksAll, top, sources,
                   chatMessages, response>>

Next ==
    \/ Receive
    \/ \E i \in 1..2 : EmbedOk(i)
    \/ \E i \in 1..2 : EmbedFail(i)
    \/ \E i \in 1..2 : SearchOk(i)
    \/ \E i \in 1..2 : SearchError(i)
    \/ \E completion \in Completions : ChatOk(completion)
    \/ ChatFail
    \/ PageShow

Spec == Init /\ [][Next]_vars

----------------------------------------------------------------------------
(* makeSnippet on its own *)

\* thirty blank lines, then a line of content
T_LATE == asTuple([i \in 1..FALLBACK_LINES |-> "\n"]) \o T_PLAIN

\* the same line twice in a row, and white space around the text
T_TWICE == <<" ","a","n","n","\n","a","n","n","\n","\n","b","o","b"," ","r","o","l","e","\n">>

SnippetTexts == {<<>>, BLANK, T_PLAIN, T_NOTES, T_ROSTER, T_LATE, T_TWICE}

SnippetQuestions == {<<>>, Q_PADDED, Q_LEADS, Q_FOLLOWUP}

\* the character budgets are 0..MaxChars
MaxChars == 40

SnippetCalls ==
    [fn : {"makeSnippet"}, text : SnippetTexts, q : SnippetQuestions, maxChars : 0..MaxChars]

\* no request is in flight; one call of makeSnippet is about to be made
SnippetInit ==
    /\ snippetCall \in SnippetCalls
    /\ body = PageBody /\ ranking = <<<<>>, <<>>>>
    /\ pc = "none"
    /\ embed = <<"idle", "idle">>
    /\ search = <<[state |-> "idle"], [state |-> "idle"]>>
    /\ calls = [embed |-> 0, search |-> 0, chat |-> 0]
    /\ searchArgs = <<>>
    /\ messages = <<>>
    /\ lastUser = <<>>
    /\ candidateK = 0
    /\ ANSWER_K = 0
    /\ retrievalQuery = [recent |-> <<>>, question |-> <<>>]
    /\ raw = <<>>
    /\ chunksAll = <<>>
    /\ top = <<>>
    /\ sources = <<>>
    /\ chatMessages = <<>>
    /\ response = [status |-> 0]
    /\ shown = [status |-> "loading"]

\* makeSnippet runs and returns
CallMakeSnippet ==
    /\ snippetCall.fn = "makeSnippet"
    /\ "result" \notin DOMAIN snippetCall
    /\ snippetCall' = snippetCall @@
           [result |-> makeSnippet(snippetCall.text, snippetCall.q, snippetCall.maxChars)]
    /\ UNCHANGED <<body, ranking, pc, embed, search, calls, searchArgs, messages,
                   lastUser, candidateK, ANSWER_K, retrievalQuery, raw, chunksAll,
                   top, sources, chatMessages, response, shown>>

SnippetNext == CallMakeSnippet

SnippetSpec == SnippetInit /\ [][SnippetNext]_vars

----------------------------------------------------------------------------
(* The claims *)

\* the request has been answered
Responded == pc \in {"responded", "shown"}

\* the request was answered with a success that went through the model
Shaped == Responded /\ response.status = 200 /\ calls.chat = 1

\* the Source list of the prompt: the content of its last message
promptSources == chatMessages[Len(chatMessages)].sources

sameIdentities(xs, ys) ==
    /\ Len(xs) = Len(ys)
    /\ \A i \in 1..Len(xs) : identity(xs[i]) = identity(ys[i])

distinctIdentities(xs) ==
    \A i, j \in 1..Len(xs) : i # j => identity(xs[i]) # identity(xs[j])

\* C1: in every success response shaped from a model answer, citations,
\* evidence and the Sources of the prompt have the same length and name the
\* same location position by position, and the i-th evidence entry (counting
\* from 1) has source = i, the number of the i-th Source block.
C1_CitationsEvidenceSourcesAligned ==
    Shaped =>
        /\ sameIdentities(response.body.citations, promptSources)
        /\ sameIdentities(response.body.evidence, promptSources)
        /\ \A i \in 1..Len(promptSources) :
              /\ response.body.evidence[i].source = i
              /\ promptSources[i].n = i

\* C1 witness: a shaped answer whose window cut the candidates short
C1_Witness ==
    /\ Shaped
    /\ Len(response.body.citations) >= 2
    /\ Len(chunksAll) > Len(top)

\* C2: whatever the two searches returned, no two entries of the candidate
\* set share an identity triple, and so neither do two of the rows shown to
\* the model, two Sources, two citations or two evidence entries.
C2_NoDuplicateIdentity ==
    /\ distinctIdentities(chunksAll)
    /\ distinctIdentities(top)
    /\ distinctIdentities(sources)
    /\ Shaped => /\ distinctIdentities(response.body.citations)
                 /\ distinctIdentities(response.body.evidence)

\* C2 witness: the searches returned one location twice and an answer was shaped
C2_Witness ==
    /\ Shaped
    /\ ~distinctIdentities(raw)
    /\ Len(response.body.citations) >= 2

\* the rows of rawRows at the location of row c
sameLocation(rawRows, c) == {i \in 1..Len(rawRows) : identity(rawRows[i]) = identity(c)}

\* the first row of rawRows, at the location of c, of the highest similarity there
firstBest(rawRows, c) ==
    LET here == sameLocation(rawRows, c)
        best == {i \in here : \A j \in here : similarityOf(rawRows[i]) >= similarityOf(rawRows[j])}
    IN  rawRows[CHOOSE i \in best : \A j \in best : i <= j]

\* C3: for every identity triple among the merged rows, the row kept for it
\* is the one of the highest similarity with that triple (null counting as 0),
\* and the first such row in merged order when several share the highest.
C3_BestRowOfEachIdentityKept ==
    \A k \in 1..Len(raw) :
        \E p \in 1..Len(chunksAll) : chunksAll[p] = firstBest(raw, raw[k])

blank(text) == \A i \in 1..Len(text) : text[i] \in WhiteSpace

\* the request carries a user turn with content that is not blank
hasUserTurn ==
    /\ "messages" \in DOMAIN body
    /\ \E i \in 1..Len(body.messages) :
          /\ body.messages[i].role = "user"
          /\ "content" \in DOMAIN body.messages[i]
          /\ ~blank(body.messages[i].content)

\* the request carries a question field that is not blank
hasQuestion == "question" \in DOMAIN body /\ ~blank(body.question)

noCalls == [embed |-> 0, search |-> 0, chat |-> 0]

\* C4: a request with no user turn of non-blank content and no non-blank
\* question is answered 400 with an error body, and at no point of it is an
\* embedding, search or chat call issued.
C4_MissingQuestionRejected ==
    (~hasUserTurn /\ ~hasQuestion) =>
        /\ calls = noCalls
        /\ pc # "start" => /\ Responded
                           /\ response.status = 400
                           /\ DOMAIN response.body = {"error"}

\* C4 witness: a conversation with turns, none of them a usable user turn, was rejected
C4_Witness ==
    /\ ~hasUserTurn /\ ~hasQuestion
    /\ "messages" \in DOMAIN body
    /\ \E i \in 1..Len(body.messages) :
          body.messages[i].role = "assistant" /\ ~blank(body.messages[i].content)
    /\ pc = "responded"
    /\ response.status = 400

\* the current question as the claim gives it: the last usable user turn,
\* else the question field
expectedQuestion ==
    IF hasUserTurn
    THEN LET ms == body.messages
             ok == {i \in 1..Len(ms) : /\ ms[i].role = "user"
                                       /\ "content" \in DOMAIN ms[i]
                                       /\ ~blank(ms[i].content)}
         IN  trim(ms[CHOOSE i \in ok : \A j \in ok : j <= i].content)
    ELSE IF hasQuestion THEN trim(body.question)
    ELSE <<>>

\* C5: the current question is the trimmed content of the last valid user
\* turn of messages, and the question field only when there is none; it is
\* the question the retrieval query, the rerank, the Sources' snippets and
\* the evidence previews are computed from.
C5_CurrentQuestion ==
    pc # "start" =>
        /\ lastUser = expectedQuestion
        /\ calls.embed > 0 => retrievalQuery.question = expectedQuestion
        /\ pc = "completing" =>
              /\ chunksAll = rerank(dedupe(raw), expectedQuestion)
              /\ sources = buildSources(top, expectedQuestion)
        /\ Shaped => response.body.evidence = buildEvidence(top, expectedQuestion)

\* C5 witness: a request with a user turn and a different question field was
\* answered from its user turn
C5_Witness ==
    /\ Shaped
    /\ hasUserTurn /\ hasQuestion
    /\ lastUser # trim(body.question)
    /\ \E i \in 1..Len(body.messages) : body.messages[i].role = "system"

searchFailed(i) == search[i].state = "done" /\ "error" \in DOMAIN search[i]

searchReturned(i) == search[i].state = "done" /\ "data" \in DOMAIN search[i]

\* C6: once either search has returned an error no chat call is issued, and
\* the request ends with status 500, the message of a failed search as
\* detail and no answer, also when the other search returned rows.
C6_SearchErrorFailsRequest ==
    (searchFailed(1) \/ searchFailed(2)) =>
        /\ calls.chat = 0
        /\ Responded =>
              /\ response.status = 500
              /\ DOMAIN response.body = {"error", "detail"}
              /\ response.body.detail \in {searchError(i) : i \in {j \in 1..2 : searchFailed(j)}}

\* C6 witness: the first search returned rows, the second an error, and the
\* request was answered
C6_Witness ==
    /\ Responded
    /\ searchReturned(1) /\ Len(search[1].data) > 0
    /\ searchFailed(2)

\* C7: when both searches succeed with no row at all, the response is a
\* success with the one fixed fallback text, no citations and no evidence,
\* and the model is not asked.
C7_NoRowsFallback ==
    (/\ Responded
     /\ searchReturned(1) /\ searchReturned(2)
     /\ Len(search[1].data) + Len(search[2].data) = 0) =>
        /\ response = jsonResponse(200,
               [answer |-> FALLBACK_NO_ROWS, citations |-> <<>>, evidence |-> <<>>])
        /\ calls.chat = 0

\* C7 witness: both searches returned no row and the request was answered
C7_Witness ==
    /\ pc = "responded"
    /\ searchReturned(1) /\ searchReturned(2)
    /\ search[1].data = <<>> /\ search[2].data = <<>>

\* C8: whatever integer topK is, or none, each search is asked for 40 to 120
\* rows and the rows shown to the model are cut to a window of 8 to 20.
C8_WidthsClamped ==
    /\ \A i \in 1..Len(searchArgs) : searchArgs[i].match_count \in 40..120
    /\ calls.embed > 0 => candidateK \in 40..120 /\ ANSWER_K \in 8..20
    /\ Len(top) <= ANSWER_K
    /\ pc = "completing" => top = firstN(chunksAll, ANSWER_K)

\* C8 witness: a request with topK = 1000 reached the model
C8_Witness ==
    /\ "topK" \in DOMAIN body /\ body.topK = 1000
    /\ Len(searchArgs) = 2
    /\ pc = "completing"

\* C9: a current question containing "how many sheets are indexed" is
\* answered without any embedding or search call, with empty citations.
C9_IntrospectionBypassesRetriever ==
    includes(toLowerCase(expectedQuestion), Q_INDEX) =>
        /\ calls.embed = 0 /\ calls.search = 0
        /\ (Responded /\ response.status = 200) => response.body.citations = <<>>

\* C10: a request whose chat call returned blank text does not end as a
\* success response with the empty string as its answer.
C10_BlankAnswerNotReturned ==
    (Responded /\ response.status = 200) => response.body.answer # <<>>

\* C12: of two candidates with equal combined scores, the one of the higher
\* similarity comes first in the ranked sequence.
C12_TiesBrokenBySimilarity ==
    \A i, j \in 1..Len(chunksAll) :
        (i < j /\ scoreOf(chunksAll[i], lastUser) = scoreOf(chunksAll[j], lastUser)) =>
            similarityOf(chunksAll[i]) >= similarityOf(chunksAll[j])

\* the rows of xs, as a set
rowsOf(xs) == {xs[i] : i \in 1..Len(xs)}

\* C14: the Sources are the first min(ANSWER_K, number of candidates) entries
\* of the deduplicated candidates, all of them scored and sorted: they are in
\* non-increasing order of combined score, and no candidate left out scores
\* strictly higher than one that is in.
C14_SourcesAreTopOfRanking ==
    calls.chat = 1 =>
        /\ Len(chunksAll) = Len(dedupe(raw))
        /\ rowsOf(chunksAll) = rowsOf(dedupe(raw))
        /\ Len(sources) = Min(ANSWER_K, Len(chunksAll))
        /\ sameIdentities(sources, firstN(chunksAll, Len(sources)))
        /\ \A i, j \in 1..Len(chunksAll) :
              (i <= Len(sources) /\ i < j) =>
                  scoreOf(chunksAll[i], lastUser) >= scoreOf(chunksAll[j], lastUser)

\* C14 witness: more candidates than the window holds, returned in an order
\* that is not the order of their scores
C14_Witness ==
    /\ calls.chat = 1
    /\ Len(chunksAll) > Len(sources)
    /\ chunksAll # dedupe(raw)

\* the number of keywords of question q found in text, one for each keyword of the list
hitsAmong(lo, keys) == Cardinality({i \in 1..Len(keys) : includes(lo, keys[i])})

keywordHits(text, q) == hitsAmong(toLowerCase(text), keywords(q))

bonusOf(c) == scoreOf(c, lastUser) - similarityOf(c)

\* C15: for every candidate the combined score less the similarity is
\* min(0.25, 0.03 x keywords of the question found in its text), so between 0
\* and 0.25; and a candidate whose similarity is more than 0.25 above
\* another's is ranked before it.
C15_BonusCapped ==
    /\ \A i \in 1..Len(chunksAll) :
          /\ bonusOf(chunksAll[i]) =
                 Min(BONUS_CAP, BONUS_PER_HIT * keywordHits(chunksAll[i].text, lastUser))
          /\ bonusOf(chunksAll[i]) \in 0..BONUS_CAP
    /\ \A i, j \in 1..Len(chunksAll) :
          similarityOf(chunksAll[i]) > similarityOf(chunksAll[j]) + BONUS_CAP => i < j

\* C15 witness: a candidate with more hits than the cap pays for is ranked
\* behind one without any hit whose similarity is more than 0.25 higher
C15_Witness ==
    \E i, j \in 1..Len(chunksAll) :
        /\ i < j
        /\ bonusOf(chunksAll[i]) = 0
        /\ bonusOf(chunksAll[j]) = BONUS_CAP
        /\ BONUS_PER_HIT * keywordHits(chunksAll[j].text, lastUser) > BONUS_CAP
        /\ similarityOf(chunksAll[i]) > similarityOf(chunksAll[j]) + BONUS_CAP

embedFailed == \E i \in 1..2 : embed[i] = "failed"

\* the chat call was issued and the request ended without a success
chatFailed == calls.chat = 1 /\ Responded /\ response.status # 200

\* C13: once an embedding call or the chat call has thrown, the request is
\* answered 500 with an error body that carries the message thrown, never
\* with a success; every external call is issued at most once in a request
\* (two embedding calls, two searches, one chat call), and none after a failure.
C13_FailuresSurfaceNoRetry ==
    /\ [](embedFailed => Responded /\ response = jsonResponse(500,
             [error |-> "Unhandled error", detail |-> EMBED_ERROR]))
    /\ [](chatFailed => response = jsonResponse(500,
             [error |-> "Unhandled error", detail |-> CHAT_ERROR]))
    /\ [](calls.embed <= 2 /\ calls.search <= 2 /\ calls.chat <= 1)
    /\ [][/\ \A k \in DOMAIN calls : calls'[k] # calls[k] => calls[k] = 0
          /\ (embedFailed \/ chatFailed) => calls' = calls]_vars

\* C13 witness: both embeddings and both searches succeeded and the chat call threw
C13_Witness ==
    /\ chatFailed
    /\ embed = <<"ok", "ok">>
    /\ calls = [embed |-> 2, search |-> 2, chat |-> 1]

\* makeSnippet has returned
Returned == "result" \in DOMAIN snippetCall

\* the snippet of the call before the cut to its budget
uncutOfCall == snippetUncut(snippetCall.text, snippetCall.q)

\* C11: whatever the text, the question and the budget maxChars >= 0, the
\* snippet is at most maxChars + 1 long; it is the uncut snippet, with no
\* marker, when that fits the budget, and its first maxChars characters
\* followed by the one-character marker only when it does not.
C11_SnippetWithinBudget ==
    Returned =>
        /\ Len(snippetCall.result) <= snippetCall.maxChars + 1
        /\ Len(uncutOfCall) <= snippetCall.maxChars => snippetCall.result = uncutOfCall
        /\ Len(uncutOfCall) > snippetCall.maxChars =>
              snippetCall.result = firstN(uncutOfCall, snippetCall.maxChars) \o ELLIPSIS

\* C11 witness: a snippet of several lines was cut inside its second line
C11_Witness ==
    /\ Returned
    /\ Len(snippetCall.result) = snippetCall.maxChars + 1
    /\ snippetCall.result[Len(snippetCall.result)] = ELLIPSIS[1]
    /\ \E i \in 1..(snippetCall.maxChars - 1) : snippetCall.result[i] = "\n"

\* C17: the two searches are issued together and are pending together; until
\* both have completed nothing is merged, deduplicated or sent to the model;
\* and once both have returned rows, the merged list is the rows of the first
\* search followed by those of the second, and the candidates, Sources,
\* citations and evidence are those computed from it, whichever of the two
\* completed first.
C17_SearchOrderIrrelevant ==
    /\ calls.search \in {0, 2}
    /\ (search[1].state = "idle") <=> (search[2].state = "idle")
    /\ (\E i \in 1..2 : search[i].state # "done") =>
          /\ raw = <<>> /\ chunksAll = <<>> /\ top = <<>> /\ sources = <<>>
          /\ calls.chat = 0
    /\ (searchReturned(1) /\ searchReturned(2)) =>
          /\ raw = search[1].data \o search[2].data
          /\ chunksAll = rerank(dedupe(raw), lastUser)
          /\ top = firstN(chunksAll, ANSWER_K)
          /\ sources = buildSources(top, lastUser)
          /\ Shaped => /\ response.body.citations = buildCitations(top)
                       /\ response.body.evidence = buildEvidence(top, lastUser)

\* C17 witness: the second search completed first, the two returned different
\* rows, and an answer was shaped
C17_Witness ==
    /\ Shaped
    /\ search[2].at = 1
    /\ search[1].data # <<>> /\ search[2].data # <<>>
    /\ search[1].data # search[2].data

\* C19: every identity triple among the merged rows, field values with a '|'
\* in them included, is the triple of one of the candidates: no two rows of
\* different triples are collapsed into one.
C19_DifferentTriplesBothKept ==
    \A i \in 1..Len(raw) :
        \E p \in 1..Len(chunksAll) : identity(chunksAll[p]) = identity(raw[i])

\* the conversation turns of the prompt: all but its first and last message
promptTurns == SubSeq(chatMessages, 2, Len(chatMessages) - 1)

\* C18: the messages of the chat call are the system instruction, then the
\* last 8 turns of the conversation at most, in their order, then the Sources
\* as the last message; the n-th Source block is numbered n and names the
\* location of the evidence entry with source = n and of the n-th citation.
C18_PromptSequence ==
    calls.chat = 1 =>
        /\ Len(chatMessages) >= 2
        /\ chatMessages[1] = [role |-> "system", prompt |-> "SYSTEM_PROMPT"]
        /\ Len(promptTurns) = Min(HISTORY_WINDOW, Len(messages))
        /\ \A k \in 1..Len(promptTurns) :
              promptTurns[k] = messages[Len(messages) - Len(promptTurns) + k]
        /\ \A k \in 1..Len(chatMessages) :
              "sources" \in DOMAIN chatMessages[k] <=> k = Len(chatMessages)
        /\ chatMessages[Len(chatMessages)].role = "user"
        /\ promptSources = sources
        /\ \A n \in 1..Len(promptSources) : promptSources[n].n = n
        /\ Shaped =>
              /\ Len(response.body.evidence) = Len(promptSources)
              /\ Len(response.body.citations) = Len(promptSources)
              /\ \A n \in 1..Len(promptSources) :
                    /\ response.body.evidence[n].source = n
                    /\ identity(response.body.evidence[n]) = identity(promptSources[n])
                    /\ identity(response.body.citations[n]) = identity(promptSources[n])

\* C18 witness: a conversation of more turns than the window was answered
\* from two Sources
C18_Witness ==
    /\ Shaped
    /\ Len(messages) > HISTORY_WINDOW
    /\ Len(promptSources) >= 2

\* s is the start of t
isPrefix(s, t) == Len(s) <= Len(t) /\ SubSeq(t, 1, Len(s)) = s

\* the snippet of the i-th row shown to the model, before any cut
uncutOfTop(i) == snippetUncut(top[i].text, lastUser)

\* what the i-th preview and the i-th Source make of a snippet
agree(uncut, preview, shownToModel) ==
    /\ Len(uncut) <= PREVIEW_CHARS => preview = uncut /\ shownToModel = uncut
    /\ Len(uncut) > PREVIEW_CHARS =>
          /\ preview = firstN(uncut, PREVIEW_CHARS) \o ELLIPSIS
          /\ isPrefix(firstN(uncut, PREVIEW_CHARS), shownToModel)

\* C20: for every Source the preview of the evidence equals the snippet in
\* the prompt when the uncut snippet has at most 900 characters; otherwise it
\* is the first 900 characters of the uncut snippet and the marker, and those
\* 900 characters are the start of the snippet in the prompt.
C20_PreviewAgreesWithPrompt ==
    Shaped =>
        /\ Len(response.body.evidence) = Len(promptSources)
        /\ \A i \in 1..Len(promptSources) :
              agree(uncutOfTop(i), response.body.evidence[i].preview, promptSources[i].content)

\* C20 witness: one answer with a snippet that fits the preview, one that
\* fits the Source only and one that fits neither
C20_Witness ==
    /\ Shaped
    /\ \E i, j, k \in 1..Len(top) :
          /\ Len(uncutOfTop(i)) <= PREVIEW_CHARS
          /\ Len(uncutOfTop(j)) > PREVIEW_CHARS /\ Len(uncutOfTop(j)) <= SOURCE_SNIPPET_CHARS
          /\ Len(uncutOfTop(k)) > SOURCE_SNIPPET_CHARS
          /\ promptSources[k].content # response.body.evidence[k].preview

\* no line of the text of the call contains a keyword of its question
noKeywordLine ==
    LET lines == split(snippetCall.text, "\n")
        keys  == keywords(snippetCall.q)
    IN  \A i \in 1..Len(lines) : \A k \in 1..Len(keys) :
            ~includes(toLowerCase(lines[i]), keys[k])

\* the first FALLBACK_LINES lines of the text of the call, joined, trimmed and
\* cut to the budget
firstLinesOfCall ==
    LET first == trim(join(firstN(split(snippetCall.text, "\n"), FALLBACK_LINES), <<"\n">>))
    IN  IF Len(first) > snippetCall.maxChars
        THEN firstN(first, snippetCall.maxChars) \o ELLIPSIS
        ELSE first

\* C16: when no line of the text contains a keyword of the question, the
\* snippet is the first 30 lines of the text, joined, trimmed and cut to the
\* budget; and the snippet of a text that is not blank is not empty.
C16_FallbackFirstLines ==
    Returned =>
        /\ noKeywordLine => snippetCall.result = firstLinesOfCall
        /\ ~blank(snippetCall.text) => snippetCall.result # <<>>

\* the passages the two searches returned
returnedRows == Len(dataOf(search[1])) + Len(dataOf(search[2]))

\* C21: within a request no match_chunks call is issued before both embedding
\* calls have resolved, and the chat call is issued only once both searches
\* have returned without an error and with at least one passage between them;
\* once an embedding call has thrown, no search and no chat call has been
\* issued and none is issued afterwards.
C21_CallsInOrder ==
    /\ [](calls.search > 0 => embed = <<"ok", "ok">>)
    /\ [](calls.chat > 0 => /\ searchReturned(1) /\ searchReturned(2)
                            /\ returnedRows >= 1)
    /\ [](embedFailed => calls.search = 0 /\ calls.chat = 0)
    /\ [][/\ calls'.search > calls.search => embed' = <<"ok", "ok">>
          /\ calls'.chat > calls.chat => searchReturned(1)' /\ searchReturned(2)'
          /\ embedFailed => calls' = calls]_vars

\* C21 witness: the chat call was issued after both embedding calls resolved
\* and both searches returned, the second of them first and with at least
\* one passage, the first with none
C21_Witness ==
    /\ calls = [embed |-> 2, search |-> 2, chat |-> 1]
    /\ embed = <<"ok", "ok">>
    /\ searchReturned(1) /\ searchReturned(2)
    /\ Len(search[1].data) = 0
    /\ Len(search[2].data) >= 1
    /\ search[2].at = 1

====
